---- MODULE Spec2Model ----
(***************************************************************************)
(* Model of the walk-forward backtest of scripts/backtesting_stock_        *)
(* analysis.py: get_best_stock and the loop of backtest (Spec),            *)
(* get_best_stock called on its own (SelectSpec), the score table builder  *)
(* load_and_score_stock_data (BuildSpec), and the five analyzers of        *)
(* scripts/indicators.py (AnalyzeSpec).                                    *)
(*                                                                         *)
(* Numbers.  Python computes the share counts and portfolio values in      *)
(* IEEE-754 binary64.  A value is modelled as [m, e]: the 53-bit           *)
(* significand m, held as little-endian limbs of 14 bits, and the exponent *)
(* e of its last bit, so that the value is m * 2^e.  Every operation       *)
(* computes the exact result and rounds it to nearest, ties to even, as    *)
(* the hardware does.  Prices read from the CSV files are small positive   *)
(* integers, which binary64 holds exactly.                                 *)
(*                                                                         *)
(* Dates are day numbers.  The score table is fixed when backtest starts.  *)
(* The price files are read again by get_stock_data on every period; their *)
(* content never changes during a run, so a bar that was read once is read *)
(* the same way later (data_folder records the bars read so far), and a    *)
(* bar that has not been read yet may turn out to be any bar or be absent. *)
(* The score table was built from the same files: an instrument with a row *)
(* on a date has a bar on that date, unless its file has become            *)
(* unavailable since.                                                      *)
(*                                                                         *)
(* The builder reads price files whose bars lie on consecutive dates, but  *)
(* for one date that may be missing.  The indicators of the ta package are *)
(* not computed: an analyzer call is given the values it reads of them,    *)
(* and the builder is given the five scores of a DataFrame, the same ones  *)
(* whenever the same DataFrame is passed again.                            *)
(***************************************************************************)
EXTENDS Integers, Sequences, FiniteSets, TLC

----------------------------------------------------------------------------
(* Bounds of the model *)

\* last date a score table row may carry (the first is 0)
MaxDate == 2
\* the reevaluation_period argument of backtest, in days
reevaluation_period == 1

\* the instruments, in the order their files are listed
Listing == <<"A", "B">>
Symbols == {Listing[i] : i \in 1..Len(Listing)}
Prices == {10, 11}
\* sums of the five sub-scores a row may carry
ScoreSums == {15}
\* sums of the five sub-scores of the rows get_best_stock is called on by itself
SelectorSums == {14, 15}

----------------------------------------------------------------------------
(* binary64 arithmetic *)

LimbBits == 14
Base == 2^LimbBits
MantBits == 53

RECURSIVE Carry(_, _)
Carry(s, c) ==
    IF s = <<>>
    THEN IF c = 0 THEN <<>> ELSE <<c % Base>> \o Carry(<<>>, c \div Base)
    ELSE LET t == Head(s) + c IN <<t % Base>> \o Carry(Tail(s), t \div Base)

RECURSIVE Trim(_)
Trim(s) == IF s # <<>> /\ s[Len(s)] = 0 THEN Trim(SubSeq(s, 1, Len(s) - 1)) ELSE s

RECURSIVE BitsOf(_)
BitsOf(n) == IF n = 0 THEN 0 ELSE 1 + BitsOf(n \div 2)

BitLen(a) == IF a = <<>> THEN 0 ELSE LimbBits * (Len(a) - 1) + BitsOf(a[Len(a)])

RECURSIVE ColSum(_, _, _, _)
ColSum(a, b, k, i) ==
    IF i > Len(a) THEN 0
    ELSE (IF (k + 1 - i) \in 1..Len(b) THEN a[i] * b[k + 1 - i] ELSE 0) + ColSum(a, b, k, i + 1)

MulBig(a, b) == Trim(Carry([k \in 1..(Len(a) + Len(b) - 1) |-> ColSum(a, b, k, 1)], 0))

RECURSIVE DivStep(_, _, _, _)
DivStep(a, p, i, r) ==
    IF i = 0 THEN [q |-> <<>>, r |-> r]
    ELSE LET t == r * Base + a[i]
             rest == DivStep(a, p, i - 1, t % p)
         IN [q |-> Append(rest.q, t \div p), r |-> rest.r]

DivSmall(a, p) == LET d == DivStep(a, p, Len(a), 0) IN [q |-> Trim(d.q), r |-> d.r]

RECURSIVE SubBorrow(_, _, _)
SubBorrow(a, b, br) ==
    IF a = <<>> THEN <<>>
    ELSE LET y == (IF b = <<>> THEN 0 ELSE Head(b)) + br
             t == Head(a) - y
         IN IF t < 0 THEN <<t + Base>> \o SubBorrow(Tail(a), IF b = <<>> THEN <<>> ELSE Tail(b), 1)
            ELSE <<t>> \o SubBorrow(Tail(a), IF b = <<>> THEN <<>> ELSE Tail(b), 0)

SubBig(a, b) == Trim(SubBorrow(a, b, 0))

ShiftLeft(a, k) ==
    Trim([i \in 1..(k \div LimbBits) |-> 0] \o Carry([i \in 1..Len(a) |-> a[i] * 2^(k % LimbBits)], 0))

ShiftRight(a, k) ==
    LET w == k \div LimbBits
        hi == IF w >= Len(a) THEN <<>> ELSE SubSeq(a, w + 1, Len(a))
        d == DivSmall(hi, 2^(k % LimbBits))
    IN [q |-> d.q, lost |-> d.r # 0 \/ \E i \in 1..Len(a) : i <= w /\ a[i] # 0]

Round(n, sticky, e) ==
    LET len == BitLen(n) IN
    IF len <= MantBits
    THEN [m |-> ShiftLeft(n, MantBits - len), e |-> e - (MantBits - len)]
    ELSE LET s == len - MantBits
             t == ShiftRight(n, s - 1)
             guard == t.q[1] % 2 = 1
             h == ShiftRight(t.q, 1).q
             up == guard /\ (t.lost \/ sticky \/ h[1] % 2 = 1)
             m0 == IF up THEN Trim(Carry(h, 1)) ELSE h
         IN IF BitLen(m0) > MantBits
            THEN [m |-> ShiftRight(m0, 1).q, e |-> e + s + 1]
            ELSE [m |-> m0, e |-> e + s]

FromInt(n) == Round(Trim(Carry(<<n>>, 0)), FALSE, 0)
FMul(x, y) == Round(MulBig(x.m, y.m), FALSE, x.e + y.e)
FDiv(x, p) == LET d == DivSmall(ShiftLeft(x.m, 2 * LimbBits), p)
              IN Round(d.q, d.r # 0, x.e - 2 * LimbBits)
FSub(x, y) ==
    LET e0 == IF x.e < y.e THEN x.e ELSE y.e
    IN Round(SubBig(ShiftLeft(x.m, x.e - e0), ShiftLeft(y.m, y.e - e0)), FALSE, e0)

RECURSIVE LimbsLeq(_, _, _)
LimbsLeq(a, b, i) ==
    IF i = 0 THEN TRUE
    ELSE IF a[i] # b[i] THEN a[i] < b[i] ELSE LimbsLeq(a, b, i - 1)

FLeq(x, y) == x.e < y.e \/ (x.e = y.e /\ LimbsLeq(x.m, y.m, Len(x.m)))

----------------------------------------------------------------------------
(* Parameters of a run *)

STOP_LOSS == FDiv(FromInt(5), 100)
INITIAL_INVESTMENT == 50000

----------------------------------------------------------------------------
(* State *)

VARIABLES
    stock_scores,        \* the score table: rows [Date, Symbol, Score] in DataFrame order
    unavailable,         \* instruments for which get_stock_data returns an empty DataFrame
    data_folder,         \* the bars of the price files, as far as they have been read
    investment_log,      \* the ledger
    log_period,          \* for each ledger entry, the current_date of the period that wrote it
    stdout,              \* the "Switched to" lines written so far
    current_investment,
    current_stock,
    current_shares,
    entry_price,         \* 0 as long as the local has not been assigned
    current_date,
    best_stock,
    stock_data,          \* the instrument whose DataFrame stock_data holds, or "Empty"
    day,                 \* the date the monitoring loop looks at next
    pc,                  \* "loop", "scan", "reevaluate", "done" or "raised"
    error,               \* the exception that ended the run, or "none"
    selections,          \* the results of the calls of get_best_stock made on their own
    folder,              \* load_and_score_stock_data: the listing and the files of data_folder
    date_range,          \* load_and_score_stock_data: start_date and end_date
    library,             \* what the analyzers returned for the DataFrames passed so far
    build,               \* load_and_score_stock_data: position in its loops
    previous,            \* the input and the table of the build made before this one
    call,                \* an analyzer call: the analyzer and what it reads of its DataFrame
    result               \* what the call returned, or the exception it raised

vars == <<stock_scores, unavailable, data_folder, investment_log, log_period, stdout,
          current_investment, current_stock, current_shares, entry_price, current_date,
          best_stock, stock_data, day, pc, error, selections,
          folder, date_range, library, build, previous, call, result>>

\* the variables of a run of backtest
backtest_vars == <<stock_scores, unavailable, data_folder, investment_log, log_period,
                   stdout, current_investment, current_stock, current_shares, entry_price,
                   current_date, best_stock, stock_data, day, pc, error>>

\* the variables of a run of load_and_score_stock_data, stock_scores apart
builder_vars == <<folder, date_range, library, build, previous>>

\* what a run of backtest assigns: its variables, the score table apart
run_vars == <<unavailable, data_folder, investment_log, log_period, stdout,
              current_investment, current_stock, current_shares, entry_price,
              current_date, best_stock, stock_data, day, pc, error>>

\* Python's None, a local that has not been assigned yet, an empty DataFrame
None == "None"
Unset == "Unset"
Empty == "Empty"

\* load_and_score_stock_data is not running
BuilderNotStarted ==
    /\ folder = Unset
    /\ date_range = Unset
    /\ library = <<>>
    /\ build = Unset
    /\ previous = Unset

\* the variables of a call of an analyzer of indicators.py
analyzer_vars == <<call, result>>

\* no analyzer is being called on its own
NoAnalyzerCall ==
    /\ call = Unset
    /\ result = Unset
\* a bar that has not been read yet, and a date without a bar
Unread == [kind |-> "Unread"]
NoBar == [kind |-> "NoBar"]
\* the int 0 that current_shares starts with
Zero == [m |-> <<>>, e |-> 0]

TableDates == 0..MaxDate
BarDates == 0..(MaxDate + reevaluation_period)
Bars == {b \in [Open : Prices, Low : Prices] : b.Low <= b.Open}

----------------------------------------------------------------------------
(* The score table *)

\* total_score of a row whose five sub-scores add up to sum
TotalScore(sum) == FDiv(FromInt(sum), 5)

RECURSIVE RowsOf(_, _, _)
\* the rows of one instrument, one per date of its history that carries a score
RowsOf(f, s, d) ==
    IF d > MaxDate THEN <<>>
    ELSE (IF f[s][d] = 0 THEN <<>>
          ELSE <<[Date |-> d, Symbol |-> s, Score |-> TotalScore(f[s][d])]>>)
         \o RowsOf(f, s, d + 1)

RECURSIVE TableOf(_, _)
\* the rows of all instruments, instrument by instrument in listing order
TableOf(f, i) ==
    IF i > Len(Listing) THEN <<>>
    ELSE RowsOf(f, Listing[i], 0) \o TableOf(f, i + 1)

DatesOf(table) == {table[i].Date : i \in 1..Len(table)}
MinDate(table) == CHOOSE d \in DatesOf(table) : \A x \in DatesOf(table) : d <= x
MaxTableDate(table) == CHOOSE d \in DatesOf(table) : \A x \in DatesOf(table) : x <= d
HasRow(table, s, d) == \E i \in 1..Len(table) : table[i].Symbol = s /\ table[i].Date = d

\* stock_scores[stock_scores['Date'] == date]
DayScores_AnyDate(date, table) == table
DayScores(date, table) == SelectSeq(table, LAMBDA r : r.Date = date)

\* a sort whose choice among rows of equal score changes from call to call
BestRow_CallDependent(rows) ==
    LET top == {k \in 1..Len(rows) : \A j \in 1..Len(rows) : FLeq(rows[j].Score, rows[k].Score)}
        i == IF Len(selections) = 0
             THEN CHOOSE k \in top : \A j \in top : k <= j
             ELSE CHOOSE k \in top : \A j \in top : j <= k
    IN rows[i]

\* sort_values(by='Score', ascending=False).iloc[0]: a row of the highest score;
\* among rows of equal score the sort keeps the order of the table
BestRow(rows) ==
    LET i == CHOOSE k \in 1..Len(rows) :
                 /\ \A j \in 1..Len(rows) : FLeq(rows[j].Score, rows[k].Score)
                 /\ \A j \in 1..(k - 1) : rows[j].Score # rows[k].Score
    IN rows[i]

\* the Symbol of get_best_stock's result, None for (None, None)
get_best_stock(date, table) ==
    LET day_scores == DayScores(date, table)
    IN IF day_scores # <<>> THEN BestRow(day_scores).Symbol ELSE None

\* the Score of (None, None)
NoScore == [kind |-> "None"]

\* get_best_stock's result: (best_stock['Symbol'], best_stock['Score']) or (None, None)
get_best_stock_result(date, table) ==
    LET day_scores == DayScores(date, table)
    IN IF day_scores # <<>>
       THEN [Symbol |-> BestRow(day_scores).Symbol, Score |-> BestRow(day_scores).Score]
       ELSE [Symbol |-> None, Score |-> NoScore]

----------------------------------------------------------------------------
(* The price files *)

\* what reading the bar of instrument s on date d may give
ReadBar(files, s, d) ==
    IF files[s][d] # Unread THEN {files[s][d]}
    ELSE IF HasRow(stock_scores, s, d) THEN Bars
    ELSE Bars \cup {NoBar}

\* the files once the bar of instrument s on date d has been read as b
Reading(files, s, d, b) == [files EXCEPT ![s][d] = b]

\* stock_data.loc[stock_data.index == date, 'Open'].values[0]
OpenOf_Low(b) == b.Low
OpenOf(b) == b.Open

----------------------------------------------------------------------------
(* The arithmetic of backtest *)

\* current_investment / entry_price
SharesFor_Product(value, price) == FMul(value, FromInt(price))
SharesFor(value, price) == FDiv(value, price)

\* 1 - stop_loss
OneMinusStopLoss == FSub(FromInt(1), STOP_LOSS)

\* entry_price * (1 - stop_loss), computed once for every price
StopPrices == [entry \in Prices |-> FMul(FromInt(entry), OneMinusStopLoss)]
StopPrice(entry) == StopPrices[entry]

\* day.Low <= entry_price * (1 - stop_loss), computed once for every pair of prices
Breaches == [low \in Prices |-> [entry \in Prices |-> FLeq(FromInt(low), StopPrice(entry))]]
Breach_NoDiscount(low, entry) == low <= entry
Breach(low, entry) == Breaches[low][entry]

\* current_shares * price
ValueOf_Stale(shares, price) == current_investment
ValueOf(shares, price) == FMul(shares, price)

\* current_date + timedelta(days=reevaluation_period), line 189
reevaluation_end_date == current_date + reevaluation_period

\* current_date += timedelta(days=reevaluation_period), lines 173, 179 and 222
NextPeriod(d) == d + reevaluation_period

\* 'Date': reevaluation_end_date, line 213
ReevaluateDate_PeriodStart == current_date
ReevaluateDate == reevaluation_end_date

\* the date get_best_stock is called for after a stop-loss, line 202
ReselectionDate_PeriodStart == current_date
ReselectionDate == day

\* line 208: break leaves the monitoring loop for line 210, in the same period
AfterBreak_NextPeriod == [pc |-> "loop", current_date |-> NextPeriod(current_date)]
AfterBreak == [pc |-> "reevaluate", current_date |-> current_date]

\* an entry that carries the value current_investment had before the valuation
LogEntry_ValueBefore(date, symbol, action, shares, price, value) ==
    [Date |-> date, Symbol |-> symbol, Action |-> action, Shares |-> shares,
     ExitPrice |-> price, InvestmentValue |-> current_investment]
LogEntry(date, symbol, action, shares, price, value) ==
    [Date |-> date, Symbol |-> symbol, Action |-> action, Shares |-> shares,
     ExitPrice |-> price, InvestmentValue |-> value]

----------------------------------------------------------------------------
(* Start of a run *)

Init ==
    /\ \E f \in [Symbols -> [TableDates -> {0} \cup ScoreSums]] :
          /\ \E s \in Symbols : f[s][0] # 0
          /\ stock_scores = TableOf(f, 1)
    /\ unavailable \in SUBSET Symbols
    /\ data_folder = [s \in Symbols |-> [d \in BarDates |-> Unread]]
    /\ investment_log = <<>>
    /\ log_period = <<>>
    /\ stdout = <<>>
    /\ current_investment = FromInt(INITIAL_INVESTMENT)
    /\ current_stock = None
    /\ current_shares = Zero
    /\ entry_price = 0
    /\ current_date = MinDate(stock_scores)
    /\ best_stock = Unset
    /\ stock_data = Unset
    /\ day = 0
    /\ pc = "loop"
    /\ error = "none"
    /\ selections = <<>>
    /\ BuilderNotStarted
    /\ NoAnalyzerCall

----------------------------------------------------------------------------
(* The loop of backtest, lines 170-223 *)

Frame(changed) ==
    \* every variable outside the list keeps its value
    /\ IF "log" \in changed THEN TRUE ELSE UNCHANGED <<investment_log, log_period>>
    /\ IF "stdout" \in changed THEN TRUE ELSE UNCHANGED stdout
    /\ IF "value" \in changed THEN TRUE ELSE UNCHANGED current_investment
    /\ IF "position" \in changed THEN TRUE ELSE UNCHANGED <<current_stock, current_shares, entry_price>>
    /\ IF "date" \in changed THEN TRUE ELSE UNCHANGED current_date
    /\ IF "best" \in changed THEN TRUE ELSE UNCHANGED best_stock
    /\ IF "data" \in changed THEN TRUE ELSE UNCHANGED stock_data
    /\ IF "files" \in changed THEN TRUE ELSE UNCHANGED data_folder
    /\ IF "day" \in changed THEN TRUE ELSE UNCHANGED day
    /\ IF "error" \in changed THEN TRUE ELSE UNCHANGED error
    /\ UNCHANGED <<stock_scores, unavailable>>
    /\ UNCHANGED selections
    /\ UNCHANGED builder_vars
    /\ UNCHANGED analyzer_vars

\* while current_date <= stock_scores['Date'].max() is false: the ledger is returned
Return ==
    /\ pc = "loop"
    /\ current_date > MaxTableDate(stock_scores)
    /\ pc' = "done"
    /\ Frame({})

NoCandidate_SellsPosition ==
    /\ pc = "loop"
    /\ current_date <= MaxTableDate(stock_scores)
    /\ get_best_stock(current_date, stock_scores) = None
    /\ best_stock' = None
    /\ current_date' = NextPeriod(current_date)
    /\ current_stock' = None
    /\ current_shares' = Zero
    /\ entry_price' = 0
    /\ pc' = "loop"
    /\ Frame({"best", "date", "position"})

\* lines 171-175: no row for current_date
NoCandidate ==
    /\ pc = "loop"
    /\ current_date <= MaxTableDate(stock_scores)
    /\ get_best_stock(current_date, stock_scores) = None
    /\ best_stock' = None
    /\ current_date' = NextPeriod(current_date)
    /\ pc' = "loop"
    /\ Frame({"best", "date"})

\* lines 177-181: the file of the best instrument gives an empty DataFrame
Unavailable ==
    /\ pc = "loop"
    /\ current_date <= MaxTableDate(stock_scores)
    /\ LET best == get_best_stock(current_date, stock_scores) IN
         /\ best # None
         /\ best \in unavailable
         /\ best_stock' = best
         /\ stock_data' = Empty
    /\ current_date' = NextPeriod(current_date)
    /\ pc' = "loop"
    /\ Frame({"best", "data", "date"})

\* lines 183-189: the best instrument is not the one held; a position is opened
Switch ==
    /\ pc = "loop"
    /\ current_date <= MaxTableDate(stock_scores)
    /\ LET best == get_best_stock(current_date, stock_scores) IN
         /\ best # None
         /\ best \notin unavailable
         /\ current_stock # best
         /\ \E b \in ReadBar(data_folder, best, current_date) :
              /\ b # NoBar
              /\ data_folder' = Reading(data_folder, best, current_date, b)
              /\ entry_price' = OpenOf(b)
              /\ current_shares' = SharesFor(current_investment, OpenOf(b))
              /\ stdout' = Append(stdout, [Date |-> current_date, Symbol |-> best,
                                           Shares |-> current_shares'])
         /\ best_stock' = best
         /\ stock_data' = best
         /\ current_stock' = best
    /\ day' = current_date
    /\ pc' = "scan"
    /\ Frame({"best", "data", "files", "position", "stdout", "day"})

\* the best instrument is the one held, and a position is opened all the same
Hold_Reenters ==
    /\ pc = "loop"
    /\ current_date <= MaxTableDate(stock_scores)
    /\ LET best == get_best_stock(current_date, stock_scores) IN
         /\ best # None
         /\ best \notin unavailable
         /\ current_stock = best
         /\ \E b \in ReadBar(data_folder, best, current_date) :
              /\ b # NoBar
              /\ data_folder' = Reading(data_folder, best, current_date, b)
              /\ entry_price' = OpenOf(b)
              /\ current_shares' = SharesFor(current_investment, OpenOf(b))
         /\ best_stock' = best
         /\ stock_data' = best
         /\ current_stock' = best
    /\ day' = current_date
    /\ pc' = "scan"
    /\ Frame({"best", "data", "files", "position", "day"})

\* lines 183, 189: the best instrument is the one held; the position stays
Hold ==
    /\ pc = "loop"
    /\ current_date <= MaxTableDate(stock_scores)
    /\ LET best == get_best_stock(current_date, stock_scores) IN
         /\ best # None
         /\ best \notin unavailable
         /\ current_stock = best
         /\ best_stock' = best
         /\ stock_data' = best
    /\ day' = current_date
    /\ pc' = "scan"
    /\ Frame({"best", "data", "day"})

\* line 190: the instrument has no bar on this date of the window
ScanNoBar ==
    /\ pc = "scan"
    /\ day <= reevaluation_end_date
    /\ NoBar \in ReadBar(data_folder, stock_data, day)
    /\ data_folder' = Reading(data_folder, stock_data, day, NoBar)
    /\ day' = day + 1
    /\ pc' = "scan"
    /\ Frame({"files", "day"})

\* lines 190-191: the bar of this date stays above the stop price
ScanAbove ==
    /\ pc = "scan"
    /\ day <= reevaluation_end_date
    /\ \E b \in ReadBar(data_folder, stock_data, day) :
         /\ b # NoBar
         /\ ~Breach(b.Low, entry_price)
         /\ data_folder' = Reading(data_folder, stock_data, day, b)
    /\ day' = day + 1
    /\ pc' = "scan"
    /\ Frame({"files", "day"})

\* line 190: the window is exhausted without a breach
ScanEnd ==
    /\ pc = "scan"
    /\ day > reevaluation_end_date
    /\ pc' = "reevaluate"
    /\ Frame({})

\* lines 191-201: bar b is the first of the window at or below the stop price; the
\* position is sold at the stop price and the sale is written to the ledger
StopLossExit(b) ==
    /\ pc = "scan"
    /\ day <= reevaluation_end_date
    /\ b \in ReadBar(data_folder, stock_data, day)
    /\ b # NoBar
    /\ Breach(b.Low, entry_price)
    /\ LET exit_price == StopPrice(entry_price) IN
         /\ current_investment' = ValueOf(current_shares, exit_price)
         /\ investment_log' = Append(investment_log,
                LogEntry(day, current_stock, "Stop-Loss", current_shares, exit_price,
                         current_investment'))
    /\ log_period' = Append(log_period, current_date)

\* lines 191-208: stop-loss, and the best instrument of the breach date is bought
StopLossSwitch ==
    \E b \in Bars :
      /\ StopLossExit(b)
      /\ LET best == get_best_stock(ReselectionDate, stock_scores)
             files == Reading(data_folder, stock_data, day, b)
         IN /\ best # None
            /\ best \notin unavailable
            /\ \E nb \in ReadBar(files, best, day) :
                 /\ nb # NoBar
                 /\ data_folder' = Reading(files, best, day, nb)
                 /\ entry_price' = OpenOf(nb)
                 /\ current_shares' = SharesFor(current_investment', OpenOf(nb))
                 /\ stdout' = Append(stdout, [Date |-> day, Symbol |-> best,
                                              Shares |-> current_shares'])
            /\ best_stock' = best
            /\ stock_data' = best
            /\ current_stock' = best
      /\ pc' = AfterBreak.pc
      /\ current_date' = AfterBreak.current_date
      /\ Frame({"log", "value", "best", "data", "files", "position", "stdout", "date"})

\* lines 191-204: stop-loss, and the breach date has no candidate or the candidate's file
\* is unavailable: stock_data is an empty DataFrame and line 204 raises KeyError
StopLossRaises ==
    \E b \in Bars :
      /\ StopLossExit(b)
      /\ LET best == get_best_stock(ReselectionDate, stock_scores) IN
           /\ best = None \/ best \in unavailable
           /\ best_stock' = best
      /\ data_folder' = Reading(data_folder, stock_data, day, b)
      /\ stock_data' = Empty
      /\ pc' = "raised"
      /\ error' = "KeyError"
      /\ Frame({"log", "value", "best", "data", "files", "error"})

\* lines 210-223: the position is valued at the Open of the period's end date, the
\* valuation is written to the ledger and the next period starts
Reevaluate ==
    /\ pc = "reevaluate"
    /\ \E b \in ReadBar(data_folder, stock_data, reevaluation_end_date) :
         /\ b # NoBar
         /\ data_folder' = Reading(data_folder, stock_data, reevaluation_end_date, b)
         /\ current_investment' = ValueOf(current_shares, FromInt(OpenOf(b)))
         /\ investment_log' = Append(investment_log,
                LogEntry(ReevaluateDate, current_stock, "Reevaluate", current_shares,
                         FromInt(OpenOf(b)), current_investment'))
    /\ log_period' = Append(log_period, current_date)
    /\ current_date' = NextPeriod(current_date)
    /\ pc' = "loop"
    /\ Frame({"log", "value", "files", "date"})

\* line 210: the instrument has no bar on the period's end date; .values[0] raises IndexError
ReevaluateRaises ==
    /\ pc = "reevaluate"
    /\ NoBar \in ReadBar(data_folder, stock_data, reevaluation_end_date)
    /\ data_folder' = Reading(data_folder, stock_data, reevaluation_end_date, NoBar)
    /\ pc' = "raised"
    /\ error' = "IndexError"
    /\ Frame({"files", "error"})

Next ==
    \/ Return
    \/ NoCandidate
    \/ Unavailable
    \/ Switch
    \/ Hold
    \/ ScanNoBar
    \/ ScanAbove
    \/ ScanEnd
    \/ StopLossSwitch
    \/ StopLossRaises
    \/ Reevaluate
    \/ ReevaluateRaises

Spec == Init /\ [][Next]_vars

----------------------------------------------------------------------------
(* Properties of the ledger and of the steps of backtest *)

LogIndex == 1..Len(investment_log)
LastOf(log) == log[Len(log)]
InitialValue == FromInt(INITIAL_INVESTMENT)
LastTableDate == MaxTableDate(stock_scores)
Selected == get_best_stock(current_date, stock_scores)

\* the period that started on date p has ended
PeriodOver(p) == p < current_date

\* a Stop-Loss entry was written in the current period
StopLossInPeriod ==
    \E i \in LogIndex : investment_log[i].Action = "Stop-Loss" /\ log_period[i] = current_date

\* entry_price * (1 - stop_loss) of the position held
StopPriceHeld == FMul(FromInt(entry_price), FSub(FromInt(1), STOP_LOSS))

\* the bar of instrument s on date d has been read and lies at or below the stop price
AtOrBelowStop(files, s, d) ==
    files[s][d] \in Bars /\ FLeq(FromInt(files[s][d].Low), StopPriceHeld)

\* x and y are the same binary64 value or neighbours
Near(x, y) ==
    /\ x.e = y.e
    /\ IF LimbsLeq(x.m, y.m, Len(x.m)) THEN SubBig(y.m, x.m) \in {<<>>, <<1>>}
       ELSE SubBig(x.m, y.m) = <<1>>

----------------------------------------------------------------------------
----------------------------------------------------------------------------
\* a period starts with a selected instrument that is not the one held
SelectedDiffers ==
    /\ pc = "loop"
    /\ current_date <= LastTableDate
    /\ Selected # None
    /\ Selected # current_stock

\* the step opens a position in the selected instrument at its Open of current_date
OpensSelected ==
    /\ current_stock' = Selected
    /\ data_folder'[Selected][current_date] \in Bars
    /\ entry_price' = data_folder'[Selected][current_date].Open
    /\ current_shares' = FDiv(current_investment, entry_price')

----------------------------------------------------------------------------
\* the step writes a Stop-Loss entry and the run goes on
StopLossStep ==
    /\ pc = "scan"
    /\ Len(investment_log') > Len(investment_log)
    /\ pc' # "raised"

----------------------------------------------------------------------------
\* C4: the bars of the held instrument from current_date to current_date + period are
\* looked at in date order; the first one whose Low is at or below
\* entry_price * (1 - stop_loss) fires the stop-loss: one Stop-Loss entry dated that day,
\* exit at the stop price, portfolioValue = shares * stop price, and the scan of the
\* period ends, so that no period has two Stop-Loss entries.
C4_FirstBreachStopsOnce ==
    /\ [](\A i, j \in LogIndex :
            (i < j /\ investment_log[i].Action = "Stop-Loss"
                   /\ investment_log[j].Action = "Stop-Loss")
            => log_period[i] # log_period[j])
    /\ [][(pc = "scan" /\ Len(investment_log') > Len(investment_log))
          => LET sold == LastOf(investment_log')
             IN /\ investment_log' = Append(investment_log, sold)
                /\ sold = [Date |-> day, Symbol |-> current_stock, Action |-> "Stop-Loss",
                           Shares |-> current_shares, ExitPrice |-> StopPriceHeld,
                           InvestmentValue |-> FMul(current_shares, StopPriceHeld)]
                /\ current_investment' = sold.InvestmentValue
                /\ day \in current_date..(current_date + reevaluation_period)
                /\ AtOrBelowStop(data_folder', current_stock, day)
                /\ \A d \in current_date..(day - 1) :
                       ~AtOrBelowStop(data_folder, current_stock, d)
                /\ pc' # "scan"]_vars
    /\ [][(pc = "scan" /\ pc' = "scan")
          => /\ day' = day + 1
             /\ ~AtOrBelowStop(data_folder', current_stock, day)
             /\ UNCHANGED <<investment_log, current_investment>>]_vars
    /\ [][(pc = "scan" /\ pc' = "reevaluate" /\ UNCHANGED investment_log)
          => day > current_date + reevaluation_period]_vars

C4_Witness ==
    \E i \in LogIndex :
        /\ investment_log[i].Action = "Stop-Loss"
        /\ investment_log[i].Date > log_period[i]
        /\ data_folder[investment_log[i].Symbol][log_period[i]] \in Bars

----------------------------------------------------------------------------
\* C5: when the score table has no row for current_date, the period is skipped:
\* current_date advances by the reevaluation period, and the ledger, portfolioValue,
\* the held instrument, its shares and its entry price stay as they are.
C5_NoCandidateOnlyAdvances ==
    [][(/\ pc = "loop"
        /\ current_date <= LastTableDate
        /\ \A i \in 1..Len(stock_scores) : stock_scores[i].Date # current_date)
       => /\ current_date' = current_date + reevaluation_period
          /\ UNCHANGED <<investment_log, current_investment, current_stock,
                         current_shares, entry_price>>]_vars

C5_Witness ==
    /\ pc = "loop"
    /\ best_stock = None
    /\ current_stock # None
    /\ investment_log # <<>>
    /\ current_date = LastOf(investment_log).Date + reevaluation_period

----------------------------------------------------------------------------
\* C6: at the end of a period without stop-loss, when the held instrument has a bar on
\* current_date + period: portfolioValue = shares * that bar's Open, one Reevaluate
\* entry dated current_date + period with that price and value is appended, and
\* current_date advances by the period.
C6_ReevaluateMarksToMarket ==
    [][(/\ pc = "reevaluate"
        /\ ~StopLossInPeriod
        /\ data_folder'[current_stock][current_date + reevaluation_period] \in Bars)
       => LET open == data_folder'[current_stock][current_date + reevaluation_period].Open
              value == FMul(current_shares, FromInt(open))
          IN /\ current_investment' = value
             /\ investment_log' = Append(investment_log,
                    [Date |-> current_date + reevaluation_period, Symbol |-> current_stock,
                     Action |-> "Reevaluate", Shares |-> current_shares,
                     ExitPrice |-> FromInt(open), InvestmentValue |-> value])
             /\ current_date' = current_date + reevaluation_period
             /\ UNCHANGED <<current_stock, current_shares, entry_price>>]_vars

C6_Witness ==
    /\ pc = "loop"
    /\ investment_log # <<>>
    /\ LastOf(investment_log).Action = "Reevaluate"
    /\ \A i \in LogIndex : investment_log[i].Action # "Stop-Loss"
    /\ LastOf(investment_log).InvestmentValue # InitialValue
    /\ ~Near(LastOf(investment_log).InvestmentValue, InitialValue)

----------------------------------------------------------------------------
\* C7: every run ends by returning the ledger, also when the held instrument has no
\* bar on a period's end date: no run is ended by line 210 raising IndexError.
C7_RunReturnsLedger == ~(pc = "raised" /\ error = "IndexError")

----------------------------------------------------------------------------
\* C8: no run is ended by an error when the selector has no candidate or the selected
\* instrument's price file is unavailable, neither at the start of a period nor at the
\* selection on the breach date after a stop-loss.
C8_MissingDataNeverRaises ==
    ~(/\ pc = "raised"
      /\ investment_log # <<>>
      /\ LastOf(investment_log).Action = "Stop-Loss"
      /\ LET best == get_best_stock(LastOf(investment_log).Date, stock_scores)
         IN best = None \/ best \in unavailable)

----------------------------------------------------------------------------
\* C9: the ledger only grows, an entry once written stays as it is, and the dates of
\* the entries never decrease along the ledger.
C9_LedgerChronological ==
    /\ [](\A i, j \in LogIndex : i < j => investment_log[i].Date <= investment_log[j].Date)
    /\ [][/\ Len(investment_log') >= Len(investment_log)
          /\ SubSeq(investment_log', 1, Len(investment_log)) = investment_log]_vars

C9_Witness ==
    \E i, j \in LogIndex :
        /\ i + 1 < j
        /\ investment_log[i].Date < investment_log[i + 1].Date
        /\ investment_log[i + 1].Date = investment_log[j].Date
        /\ investment_log[i].Action = "Stop-Loss"
        /\ investment_log[j].Action = "Stop-Loss"

----------------------------------------------------------------------------
\* the score table holds one instrument, its price file is available, and every bar read
\* so far has Open = Low = p
FlatInstrument(s, p) ==
    /\ \A i \in 1..Len(stock_scores) : stock_scores[i].Symbol = s
    /\ s \notin unavailable
    /\ \A t \in Symbols : \A d \in BarDates :
          data_folder[t][d] \in Bars
          => (t = s /\ data_folder[t][d].Open = p /\ data_folder[t][d].Low = p)

FlatRun == \E s \in Symbols : \E p \in Prices : FlatInstrument(s, p)

\* the instrument has been entered once: one line on standard output from the first
\* period on
EnteredOnce == Len(stdout) = (IF pc = "loop" /\ current_date = 0 THEN 0 ELSE 1)

\* C10, as stated: on one instrument of constant price, backtest enters once, never
\* fires a stop-loss, and every ledger entry is a Reevaluate whose portfolioValue
\* equals the initial capital.
C10_FlatValueEqualsCapital ==
    FlatRun
    => /\ EnteredOnce
       /\ \A i \in LogIndex :
             /\ investment_log[i].Action = "Reevaluate"
             /\ investment_log[i].InvestmentValue = InitialValue

\* C10, amended: ... every ledger entry is a Reevaluate whose portfolioValue equals the
\* initial capital to within the rounding of the two floating-point operations
\* (capital / price) * price: it is the initial capital or one of its two neighbours.
C10_FlatValueNearCapital ==
    FlatRun
    => /\ EnteredOnce
       /\ \A i \in LogIndex :
             /\ investment_log[i].Action = "Reevaluate"
             /\ Near(investment_log[i].InvestmentValue, InitialValue)

C10_Witness ==
    /\ FlatRun
    /\ pc = "done"
    /\ Len(investment_log) >= 2
    /\ \A i \in LogIndex : investment_log[i].InvestmentValue # InitialValue

----------------------------------------------------------------------------
(* get_best_stock called on its own, lines 130-145 *)

\* backtest has not been called: its locals hold their first values
BacktestNotStarted ==
    /\ unavailable = {}
    /\ data_folder = [s \in Symbols |-> [d \in BarDates |-> Unread]]
    /\ investment_log = <<>>
    /\ log_period = <<>>
    /\ stdout = <<>>
    /\ current_investment = FromInt(INITIAL_INVESTMENT)
    /\ current_stock = None
    /\ current_shares = Zero
    /\ entry_price = 0
    /\ current_date = 0
    /\ best_stock = Unset
    /\ stock_data = Unset
    /\ day = 0
    /\ pc = "loop"
    /\ error = "none"

\* the dates get_best_stock is called for: those of the table and one past its end
QueryDates == 0..(MaxDate + 1)

SelectInit ==
    /\ \E f \in [Symbols -> [TableDates -> {0} \cup SelectorSums]] :
          /\ \E s \in Symbols : \E d \in TableDates : f[s][d] # 0
          /\ stock_scores = TableOf(f, 1)
    /\ BacktestNotStarted
    /\ selections = <<>>
    /\ BuilderNotStarted
    /\ NoAnalyzerCall

\* one call get_best_stock(date, stock_scores); two calls are made on a table
Select(date) ==
    /\ Len(selections) < 2
    /\ LET r == get_best_stock_result(date, stock_scores)
       IN selections' = Append(selections,
                               [Date |-> date, Symbol |-> r.Symbol, Score |-> r.Score])
    /\ UNCHANGED backtest_vars
    /\ UNCHANGED builder_vars
    /\ UNCHANGED analyzer_vars

SelectNext == \E date \in QueryDates : Select(date)

SelectSpec == SelectInit /\ [][SelectNext]_vars

\* the rows of the score table dated date
RowsDated(date) == {i \in 1..Len(stock_scores) : stock_scores[i].Date = date}

----------------------------------------------------------------------------
\* C11: get_best_stock(date, table) returns the Symbol and Score of a row of the table
\* dated date whose Score is the highest of the rows of that date, and returns
\* (None, None) exactly when the table has no row of that date.
C11_BestOfTheDate ==
    \A c \in 1..Len(selections) :
        LET r == selections[c]
        IN /\ (r.Symbol = None) <=> (RowsDated(r.Date) = {})
           /\ (r.Symbol = None) <=> (r.Score = NoScore)
           /\ r.Symbol # None
              => \E k \in RowsDated(r.Date) :
                    /\ stock_scores[k].Symbol = r.Symbol
                    /\ stock_scores[k].Score = r.Score
                    /\ \A j \in RowsDated(r.Date) :
                          FLeq(stock_scores[j].Score, stock_scores[k].Score)

\* one call answered by the second of the two rows of its date, the higher one; the
\* other call found no row of its date
C11_Witness ==
    /\ Len(selections) = 2
    /\ selections[1].Symbol = Listing[2]
    /\ selections[1].Score = TotalScore(15)
    /\ \E i \in RowsDated(selections[1].Date) :
          stock_scores[i].Symbol = Listing[1] /\ stock_scores[i].Score = TotalScore(14)
    /\ selections[2].Symbol = None

----------------------------------------------------------------------------
----------------------------------------------------------------------------
(* load_and_score_stock_data, lines 77-127 *)

\* the number of rows below which a file, and a date of a file, is skipped
MIN_BARS == 50
\* last date a price file may carry a bar for (the first is 0)
LastDay == 50
\* the date after which nothing is left to iterate
NoDate == -1
\* a date on which a file may lack a bar
Holidays == {3}

\* a price file: "ok" can be read and has the required columns, with one bar on every
\* date from first to last except holiday; the bars dated mark or later carry other
\* values than the bars before.  "no_columns" can be read and lacks a required column.
\* "unreadable" is a file pd.read_csv raises on (empty, without a Date column, ...)
Histories == [kind : {"ok"}, first : {0}, last : {LastDay - 2, LastDay},
              holiday : {NoDate} \cup Holidays, mark : {LastDay + 1}]
Blank == [first |-> 0, last |-> NoDate, holiday |-> NoDate, mark |-> LastDay + 1]
Files == Histories \cup {[kind |-> "no_columns"] @@ Blank, [kind |-> "unreadable"] @@ Blank}

\* the file name of an instrument, as a stem and the extensions that follow it
CsvName(symbol) == <<symbol, ".csv">>
\* os.listdir(data_folder): the names in the order the operating system gives them
Listings == {<<CsvName(Listing[1]), <<"notes", ".txt">>, CsvName(Listing[2])>>,
             <<CsvName(Listing[2]), CsvName(Listing[1]), <<"notes", ".txt">>>>}

MinOf(dates) == CHOOSE d \in dates : \A x \in dates : d <= x
Reversed(seq) == [i \in 1..Len(seq) |-> seq[Len(seq) - i + 1]]

\* os.listdir(data_folder), line 90
ListDir_OrderChanges == IF build.run = 1 THEN folder.listing ELSE Reversed(folder.listing)
ListDir == folder.listing

\* f.endswith('.csv'), line 90
IsCsv(name) == name[Len(name)] = ".csv"
\* stock_files, line 90
stock_files == SelectSeq(ListDir, IsCsv)
\* stock_file.replace('.csv', ''), line 94
SymbolOf(name) == SelectSeq(name, LAMBDA t : t # ".csv")[1]

\* get_stock_data(symbol, data_folder), lines 60-74: the file of that name, if listed
FileOf(symbol) ==
    IF \E i \in 1..Len(folder.listing) : folder.listing[i] = CsvName(symbol)
    THEN folder.files[symbol]
    ELSE [kind |-> "absent"] @@ Blank

\* a DataFrame of bars: one row on every date from first to last except holiday; the
\* rows dated mark or later carry other values than the rows before
NoRows == [first |-> 0, last |-> NoDate, holiday |-> NoDate, mark |-> NoDate]

\* the rows of df dated from lo to hi
Between(df, lo, hi) ==
    LET a == IF df.first = df.holiday THEN df.first + 1 ELSE df.first
        b == IF df.last = df.holiday THEN df.last - 1 ELSE df.last
        first == IF lo > a THEN (IF lo = df.holiday THEN lo + 1 ELSE lo) ELSE a
        last == IF hi < b THEN (IF hi = df.holiday THEN hi - 1 ELSE hi) ELSE b
    IN IF last < first THEN NoRows
       ELSE [first |-> first, last |-> last,
             holiday |-> IF df.holiday \in first..last THEN df.holiday ELSE NoDate,
             mark |-> IF df.mark = NoDate \/ df.mark > last THEN NoDate
                      ELSE IF df.mark < first THEN first ELSE df.mark]

\* len(df)
RowCount(df) ==
    IF df.last < df.first THEN 0
    ELSE df.last - df.first + 1 - (IF df.holiday = NoDate THEN 0 ELSE 1)

\* df.index
IndexOf(df) == {d \in df.first..df.last : d # df.holiday}

\* the DataFrame get_stock_data returns, lines 60-74: empty when a required column is
\* missing or the file does not exist
DataFrameOf(f) ==
    IF f.kind = "ok"
    THEN Between([first |-> f.first, last |-> f.last, holiday |-> f.holiday, mark |-> f.mark],
                 f.first, f.last)
    ELSE NoRows

\* stock_data[(stock_data.index >= start_date) & (stock_data.index <= end_date)], line 98
InRange(f) == Between(DataFrameOf(f), date_range.start, date_range.end)

\* stock_data.loc[:date], lines 107-113
Prefix_WholeRange(df, date) == df
Prefix(df, date) == Between(df, df.first, date)

\* len(stock_data) < 50, line 101
TooShort(n) == n < MIN_BARS
\* len(stock_data.loc[:date]) >= 50, line 107
EnoughBars_Always(n) == TRUE
EnoughBars(n) == n >= MIN_BARS

\* an analyzer raised
Raises == [kind |-> "raises"]
\* the scores the five analyzers may return for a DataFrame of 50 rows or more: the
\* least of each, and a mixed one (analyze_ema does not return 3 there)
Analyses == {[ema |-> 1, rsi |-> 1, adx |-> 1, donchian |-> 1, volume |-> 1],
             [ema |-> 4, rsi |-> 3, adx |-> 5, donchian |-> 3, volume |-> 3]}

\* lines 109-113: the analyzers are functions of the DataFrame they are passed; for a
\* DataFrame passed before they give what they gave before
Analyze(data) ==
    IF data \in DOMAIN library THEN {library[data]} ELSE Analyses \cup {Raises}
Remember(data, a) ==
    [x \in DOMAIN library \cup {data} |-> IF x = data THEN a ELSE library[x]]

\* line 116
total_score_OfFour(a) == FDiv(FromInt(a.ema + a.rsi + a.adx + a.donchian), 4)
total_score(a) == TotalScore(a.ema + a.rsi + a.adx + a.donchian + a.volume)

\* the next date of `for date, data in stock_data.iterrows()` that passes line 107
NextScored_SameDate(f, after) ==
    LET c == {d \in IndexOf(InRange(f)) :
                 d >= after /\ EnoughBars(RowCount(Prefix(InRange(f), d)))}
    IN IF c = {} THEN NoDate ELSE MinOf(c)
NextScored(f, after) ==
    LET c == {d \in IndexOf(InRange(f)) :
                 d > after /\ EnoughBars(RowCount(Prefix(InRange(f), d)))}
    IN IF c = {} THEN NoDate ELSE MinOf(c)

\* the loops once the dates of f up to after are done
Advance(f, after) ==
    IF NextScored(f, after) = NoDate
    THEN [build EXCEPT !.pc = "file", !.file = @ + 1, !.date = NoDate]
    ELSE [build EXCEPT !.pc = "dates", !.date = NextScored(f, after)]

symbol == SymbolOf(stock_files[build.file])
AtFile == build.pc = "file" /\ build.file <= Len(stock_files)

NoPrevious == [kind |-> "none"]

BuildInit ==
    /\ folder \in [listing : Listings, files : [Symbols -> Files]]
    /\ date_range \in [start : {0, 1}, end : {LastDay - 1, LastDay}]
    /\ library = <<>>
    /\ build = [pc |-> "file", file |-> 1, date |-> NoDate, run |-> 1]
    /\ previous = NoPrevious
    /\ stock_scores = <<>>
    /\ BacktestNotStarted
    /\ selections = <<>>
    /\ NoAnalyzerCall

\* line 95: pd.read_csv raises inside get_stock_data; nothing catches it
ReadRaises ==
    /\ AtFile
    /\ FileOf(symbol).kind = "unreadable"
    /\ build' = [build EXCEPT !.pc = "raised"]
    /\ UNCHANGED <<stock_scores, folder, date_range, library, previous>>
    /\ UNCHANGED <<run_vars, selections, analyzer_vars>>

\* lines 95-102: the file has fewer than 50 rows in the range (none, when get_stock_data
\* returned an empty DataFrame)
SkipFile ==
    /\ AtFile
    /\ FileOf(symbol).kind # "unreadable"
    /\ TooShort(RowCount(InRange(FileOf(symbol))))
    /\ build' = [build EXCEPT !.file = @ + 1]
    /\ UNCHANGED <<stock_scores, folder, date_range, library, previous>>
    /\ UNCHANGED <<run_vars, selections, analyzer_vars>>

\* lines 95-107: the file is kept; the dates that fail line 107 are passed over
ScoreFile ==
    /\ AtFile
    /\ FileOf(symbol).kind # "unreadable"
    /\ ~TooShort(RowCount(InRange(FileOf(symbol))))
    /\ build' = Advance(FileOf(symbol), NoDate)
    /\ UNCHANGED <<stock_scores, folder, date_range, library, previous>>
    /\ UNCHANGED <<run_vars, selections, analyzer_vars>>

\* lines 107-123: the five analyzers return, the row of the date is appended
ScoreDate ==
    /\ build.pc = "dates"
    /\ LET f == FileOf(symbol)
           data == Prefix(InRange(f), build.date)
       IN \E a \in Analyze(data) \ {Raises} :
             /\ library' = Remember(data, a)
             /\ stock_scores' = Append(stock_scores,
                    [Date |-> build.date, Symbol |-> symbol, Score |-> total_score(a)])
             /\ build' = Advance(f, build.date)
    /\ UNCHANGED <<folder, date_range, previous>>
    /\ UNCHANGED <<run_vars, selections, analyzer_vars>>

\* lines 107-125: an analyzer raises; the exception is printed and the date is left out
ScoreRaises ==
    /\ build.pc = "dates"
    /\ LET f == FileOf(symbol)
           data == Prefix(InRange(f), build.date)
       IN /\ Raises \in Analyze(data)
          /\ library' = Remember(data, Raises)
          /\ build' = Advance(f, build.date)
    /\ UNCHANGED <<stock_scores, folder, date_range, previous>>
    /\ UNCHANGED <<run_vars, selections, analyzer_vars>>

\* line 127
ReturnTable ==
    /\ build.pc = "file"
    /\ build.file > Len(stock_files)
    /\ build' = [build EXCEPT !.pc = "done"]
    /\ UNCHANGED <<stock_scores, folder, date_range, library, previous>>
    /\ UNCHANGED <<run_vars, selections, analyzer_vars>>

\* the dates after which a file is changed between two builds
ChangeDates == (LastDay - 2)..LastDay

\* the files that differ from f only in bars dated after date: those bars carry other
\* values, are removed, or are new
ChangedAfter(f, date) ==
    {g \in {[f EXCEPT !.mark = date + 1], [f EXCEPT !.last = date],
             [f EXCEPT !.last = LastDay]} :
        /\ g # f
        /\ date <= f.last
        /\ f.mark > date}

\* load_and_score_stock_data is called a second time, with the same arguments
BuildAgain ==
    /\ build.pc = "done"
    /\ build.run = 1
    /\ previous' = [kind |-> "same", table |-> stock_scores]
    /\ build' = [pc |-> "file", file |-> 1, date |-> NoDate, run |-> 2]
    /\ stock_scores' = <<>>
    /\ UNCHANGED <<folder, date_range, library>>
    /\ UNCHANGED <<run_vars, selections, analyzer_vars>>

\* load_and_score_stock_data is called a second time, after the bars that one file
\* holds after some date were changed
BuildChanged ==
    /\ build.pc = "done"
    /\ build.run = 1
    /\ \E s \in Symbols : \E date \in ChangeDates :
          /\ folder.files[s].kind = "ok"
          /\ \E g \in ChangedAfter(folder.files[s], date) :
                /\ folder' = [folder EXCEPT !.files[s] = g]
                /\ previous' = [kind |-> "future", table |-> stock_scores,
                                 symbol |-> s, date |-> date]
    /\ build' = [pc |-> "file", file |-> 1, date |-> NoDate, run |-> 2]
    /\ stock_scores' = <<>>
    /\ UNCHANGED <<date_range, library>>
    /\ UNCHANGED <<run_vars, selections, analyzer_vars>>

BuildNext ==
    \/ ReadRaises
    \/ SkipFile
    \/ ScoreFile
    \/ ScoreDate
    \/ ScoreRaises
    \/ ReturnTable
    \/ BuildAgain
    \/ BuildChanged

BuildSpec == BuildInit /\ [][BuildNext]_vars

\* the bars of instrument s dated date or earlier, in the range or before it
HistoryUpTo(s, date) == Between(DataFrameOf(FileOf(s)), DataFrameOf(FileOf(s)).first, date)

\* the rows of a table for instrument s and a date
RowsFor(table, s, date) == SelectSeq(table, LAMBDA r : r.Symbol = s /\ r.Date = date)

\* no score computation has raised
NothingRaised == \A data \in DOMAIN library : library[data] # Raises

----------------------------------------------------------------------------
\* C13: load_and_score_stock_data never emits a row for an instrument and a date for
\* which the instrument's file holds fewer than 50 bars dated up to and including that
\* date.
C13_NoRowBelowFiftyBars ==
    \A i \in 1..Len(stock_scores) :
        RowCount(HistoryUpTo(stock_scores[i].Symbol, stock_scores[i].Date)) >= MIN_BARS

\* a finished build with a row on the date of an instrument's 50th bar, and none on the
\* date of its 49th, which lies in the range
C13_Witness ==
    /\ build.pc = "done"
    /\ \E s \in Symbols : \E d \in IndexOf(InRange(FileOf(s))) :
          \E e \in IndexOf(InRange(FileOf(s))) :
             /\ RowCount(HistoryUpTo(s, d)) = MIN_BARS
             /\ RowsFor(stock_scores, s, d) # <<>>
             /\ RowCount(HistoryUpTo(s, e)) = MIN_BARS - 1
             /\ RowsFor(stock_scores, s, e) = <<>>

----------------------------------------------------------------------------
\* C14: the row of an instrument for a date D depends only on the instrument's bars
\* dated up to and including D: two builds whose inputs differ only in bars of one
\* instrument dated after D give the same row for that instrument on D and on every
\* earlier date.
C14_NoLookAhead ==
    (build.pc = "done" /\ previous.kind = "future")
    => \A d \in 0..previous.date :
          RowsFor(stock_scores, previous.symbol, d) = RowsFor(previous.table, previous.symbol, d)

\* two finished builds that both hold the row of date D, the second made after the
\* bars after D were changed, and whose tables differ
C14_Witness ==
    /\ build.pc = "done"
    /\ previous.kind = "future"
    /\ RowsFor(stock_scores, previous.symbol, previous.date) # <<>>
    /\ RowsFor(previous.table, previous.symbol, previous.date) # <<>>
    /\ stock_scores # previous.table

----------------------------------------------------------------------------
\* C15: when no score computation raises, the finished table holds a row for every
\* instrument and every date of its history in the range on which the history holds at
\* least 50 bars up to and including that date, bars dated before the range's start
\* included, and no row for the other dates.
C15_RowForEveryDateWithHistory ==
    (build.pc = "done" /\ NothingRaised)
    => \A i \in 1..Len(stock_files) :
          LET s == SymbolOf(stock_files[i])
          IN \A d \in IndexOf(InRange(FileOf(s))) :
                (RowsFor(stock_scores, s, d) # <<>>)
                <=> (RowCount(HistoryUpTo(s, d)) >= MIN_BARS)

----------------------------------------------------------------------------
\* C16: a failure of one instrument never aborts the build, and an instrument whose
\* file cannot be read or whose score computation raises contributes no row.
C16_FailuresIsolated ==
    /\ build.pc # "raised"
    /\ \A s \in Symbols :
          (\E d \in IndexOf(InRange(FileOf(s))) :
               /\ Prefix(InRange(FileOf(s)), d) \in DOMAIN library
               /\ library[Prefix(InRange(FileOf(s)), d)] = Raises
               /\ build.pc = "done")
          => \A i \in 1..Len(stock_scores) : stock_scores[i].Symbol # s

----------------------------------------------------------------------------
----------------------------------------------------------------------------
----------------------------------------------------------------------------
(* The analyzers of indicators.py *)

\* window of ADXIndicator, line 103
ADX_WINDOW == 14
\* a float that is not a number: what an indicator holds where it has too few rows
NaN == -1
\* the None of an expected entry or exit price
NoHint == 0

\* len(data) of the calls
Lengths == {0, 13, 14, 19, 20, 27, 28, 49, 50}
\* data['Close'].iloc[-1], data['Close'].iloc[-2]
Closes == {10, 11}
\* values of the moving averages and of the channel bands
Levels == {NaN, 10, 11}
\* values of RSI, and of ADX with its two directional indicators
RsiLevels == {NaN, 20, 50, 80}
AdxLevels == {NaN, 10, 20, 22, 25, 30}
DiLevels == {NaN, 10, 20}
\* data['Volume'].iloc[-1]
Volumes == {1, 2, 3}
\* sums of the 19 volumes before the latest
VolumeSums == {19, 38, 57}

\* Python's > and < on floats: False when an operand is not a number
Gt(x, y) == x # NaN /\ y # NaN /\ x > y
Lt_OrEqual(x, y) == x # NaN /\ y # NaN /\ x <= y
Lt(x, y) == x # NaN /\ y # NaN /\ x < y

Pending == [kind |-> "pending"]
Raised(exception) == [kind |-> "raised", exception |-> exception]
Returned(score, entry, exit) ==
    [kind |-> "returned", score |-> score, entry |-> entry, exit |-> exit]

\* return score, data['Close'].iloc[-1], None
Bullish(score, close) == Returned(score, close, NoHint)
\* return score, None, data['Close'].iloc[-1]
Bearish_AsEntry(score, close) == Returned(score, close, NoHint)
Bearish(score, close) == Returned(score, NoHint, close)
\* return 3, None, None
Neutral == Returned(3, NoHint, NoHint)

\* lines 45-58
analyze_ema(data) ==
    IF data.rows >= 50
    THEN IF Gt(data.ema_short, data.ema_long) /\ Lt(data.ema_short_prev, data.ema_long_prev)
         THEN Bullish(5, data.close)
         ELSE IF Lt(data.ema_short, data.ema_long)
                 /\ Gt(data.ema_short_prev, data.ema_long_prev)
         THEN Bearish(1, data.close)
         ELSE IF Gt(data.ema_short, data.ema_long)
         THEN Bullish(4, data.close)
         ELSE Bearish(2, data.close)
    ELSE Neutral

\* the thresholds of lines 83 and 85 tested before the divergences of lines 77 and 80
analyze_rsi_LevelsFirst(data) ==
    IF data.rows >= 14
    THEN IF Lt(data.rsi, 30)
         THEN Bullish(4, data.close)
         ELSE IF Gt(data.rsi, 70)
         THEN Bearish(2, data.close)
         ELSE IF data.close < data.prev_close /\ Gt(data.rsi, data.rsi_prev)
         THEN Bullish(5, data.close)
         ELSE IF data.close > data.prev_close /\ Lt(data.rsi, data.rsi_prev)
         THEN Bearish(1, data.close)
         ELSE Neutral
    ELSE Neutral

\* lines 73-88
analyze_rsi(data) ==
    IF data.rows >= 14
    THEN IF data.close < data.prev_close /\ Gt(data.rsi, data.rsi_prev)
         THEN Bullish(5, data.close)
         ELSE IF data.close > data.prev_close /\ Lt(data.rsi, data.rsi_prev)
         THEN Bearish(1, data.close)
         ELSE IF Lt(data.rsi, 30)
         THEN Bullish(4, data.close)
         ELSE IF Gt(data.rsi, 70)
         THEN Bearish(2, data.close)
         ELSE Neutral
    ELSE Neutral

\* lines 103-104: ADXIndicator of the ta package sizes its arrays by
\* len(close) - (window - 1), and adx() writes the entry of index window; on fewer than
\* 2 * window rows the constructor (ValueError, IndexError) or adx() (IndexError) raises
ADXIndicatorRaises(rows) == rows < 2 * ADX_WINDOW

\* lines 103-116
analyze_adx(data) ==
    IF ADXIndicatorRaises(data.rows)
    THEN Raised(IF data.rows < ADX_WINDOW - 1 THEN "ValueError" ELSE "IndexError")
    ELSE IF data.rows >= 14
    THEN IF Gt(data.adx, 25)
         THEN IF Gt(data.pdi, data.ndi)
              THEN Bullish(5, data.close)
              ELSE Bearish(1, data.close)
         ELSE IF Lt(data.adx, 20)
         THEN Neutral
         ELSE Neutral
    ELSE Neutral

\* the close compared with high_band.iloc[-1] and low_band.iloc[-1]
analyze_donchian_LatestBand(data) ==
    IF data.rows >= 20
    THEN IF Gt(data.close, data.high_band)
         THEN Bullish(5, data.close)
         ELSE IF Lt(data.close, data.low_band)
         THEN Bearish(1, data.close)
         ELSE Neutral
    ELSE Neutral

\* lines 131-142
analyze_donchian(data) ==
    IF data.rows >= 20
    THEN IF Gt(data.close, data.high_band_prev)
         THEN Bullish(5, data.close)
         ELSE IF Lt(data.close, data.low_band_prev)
         THEN Bearish(1, data.close)
         ELSE Neutral
    ELSE Neutral

\* the mean of the 20 volumes before the latest bar
average_volume_BeforeLatest(data) ==
    FDiv(FromInt(data.volumes_before + data.volume_leaving), 20)
\* data['Volume'].rolling(window=20).mean().iloc[-1], line 157, on 20 rows or more: the
\* mean of the latest volume and the 19 before it
average_volume(data) == FDiv(FromInt(data.volumes_before + data.volume), 20)

\* data['Volume'].iloc[-1] > average_volume.iloc[-1]
HighVolume(data) == ~FLeq(FromInt(data.volume), average_volume(data))

\* lines 157-166
analyze_volume(data) ==
    IF data.rows >= 20
    THEN IF data.close > data.prev_close /\ HighVolume(data)
         THEN Bullish(5, data.close)
         ELSE IF data.close < data.prev_close /\ HighVolume(data)
         THEN Bearish(1, data.close)
         ELSE Neutral
    ELSE Neutral

\* what the analyzers read of a DataFrame, and of the indicators computed from it
EmaCalls == [analyzer : {"ema"}, rows : Lengths, close : Closes, ema_short : Levels,
             ema_long : Levels, ema_short_prev : Levels, ema_long_prev : Levels]
RsiCalls == [analyzer : {"rsi"}, rows : Lengths, close : Closes, prev_close : Closes,
             rsi : RsiLevels, rsi_prev : RsiLevels]
AdxCalls == [analyzer : {"adx"}, rows : Lengths, close : Closes, adx : AdxLevels,
             pdi : DiLevels, ndi : DiLevels]
\* the bands of the latest bar span its own High and Low, so they enclose its close
DonchianCalls ==
    {c \in [analyzer : {"donchian"}, rows : Lengths, close : Closes,
            high_band : Levels, low_band : Levels,
            high_band_prev : Levels, low_band_prev : Levels] :
        /\ ~Gt(c.close, c.high_band)
        /\ ~Lt(c.close, c.low_band)}
\* volumes_before is the sum of the 19 volumes before the latest, volume_leaving the
\* volume of the bar before those
VolumeCalls == [analyzer : {"volume"}, rows : Lengths, close : Closes, prev_close : Closes,
                volume : Volumes, volumes_before : VolumeSums, volume_leaving : Volumes]

\* the least len(data) for which each analyzer looks at its indicator
MinimumLength == [ema |-> 50, rsi |-> 14, adx |-> 14, donchian |-> 20, volume |-> 20]

AnalyzeInit ==
    /\ call \in EmaCalls \cup RsiCalls \cup AdxCalls \cup DonchianCalls \cup VolumeCalls
    /\ result = Pending
    /\ stock_scores = <<>>
    /\ BacktestNotStarted
    /\ selections = <<>>
    /\ BuilderNotStarted

CallEma ==
    /\ call.analyzer = "ema" /\ result = Pending
    /\ result' = analyze_ema(call)
    /\ UNCHANGED <<call, backtest_vars, selections, builder_vars>>

CallRsi ==
    /\ call.analyzer = "rsi" /\ result = Pending
    /\ result' = analyze_rsi(call)
    /\ UNCHANGED <<call, backtest_vars, selections, builder_vars>>

CallAdx ==
    /\ call.analyzer = "adx" /\ result = Pending
    /\ result' = analyze_adx(call)
    /\ UNCHANGED <<call, backtest_vars, selections, builder_vars>>

CallDonchian ==
    /\ call.analyzer = "donchian" /\ result = Pending
    /\ result' = analyze_donchian(call)
    /\ UNCHANGED <<call, backtest_vars, selections, builder_vars>>

CallVolume ==
    /\ call.analyzer = "volume" /\ result = Pending
    /\ result' = analyze_volume(call)
    /\ UNCHANGED <<call, backtest_vars, selections, builder_vars>>

AnalyzeNext == CallEma \/ CallRsi \/ CallAdx \/ CallDonchian \/ CallVolume

AnalyzeSpec == AnalyzeInit /\ [][AnalyzeNext]_vars

----------------------------------------------------------------------------
\* C19: on a history shorter than its minimum length (analyze_ema 50 bars, analyze_rsi
\* 14, analyze_adx 14, analyze_donchian 20, analyze_volume 20) an analyzer returns
\* score 3 with both price hints None; it does not raise.
C19_ShortHistoryIsNeutral ==
    (result # Pending /\ call.rows < MinimumLength[call.analyzer]) => result = Neutral

----------------------------------------------------------------------------
\* C20: a call of an analyzer that returns gives an integer score from 1 to 5; the
\* entry price is set exactly when the score is 4 or 5 and the exit price exactly when
\* it is 1 or 2, so both are None for 3 and never both set; a price that is set is the
\* latest close.
C20_HintsFollowScore ==
    result.kind = "returned"
    => /\ result.score \in 1..5
       /\ (result.entry # NoHint) <=> (result.score \in {4, 5})
       /\ (result.exit # NoHint) <=> (result.score \in {1, 2})
       /\ result.entry # NoHint => result.entry = call.close
       /\ result.exit # NoHint => result.exit = call.close

\* analyze_rsi returned the overbought score with the latest close as exit price
C20_Witness ==
    /\ call.analyzer = "rsi"
    /\ result.kind = "returned"
    /\ result.score = 2
    /\ result.exit = call.close
    /\ result.entry = NoHint

----------------------------------------------------------------------------
\* x and y are numbers and x is the larger one
Above(x, y) == x # NaN /\ y # NaN /\ x > y

\* C21: analyze_ema on at least 50 bars: fast above slow on the last bar and below it on
\* the previous bar gives (5, close, None); fast below slow on the last bar and above it
\* on the previous bar gives (1, None, close); otherwise fast strictly above slow on the
\* last bar gives (4, close, None); every other case, fast equal to slow included,
\* gives (2, None, close); 3 is never given.
C21_EmaCrossover ==
    (call.analyzer = "ema" /\ call.rows >= 50 /\ result # Pending)
    => /\ result = IF Above(call.ema_short, call.ema_long)
                      /\ Above(call.ema_long_prev, call.ema_short_prev)
                   THEN Returned(5, call.close, NoHint)
                   ELSE IF Above(call.ema_long, call.ema_short)
                           /\ Above(call.ema_short_prev, call.ema_long_prev)
                   THEN Returned(1, NoHint, call.close)
                   ELSE IF Above(call.ema_short, call.ema_long)
                   THEN Returned(4, call.close, NoHint)
                   ELSE Returned(2, NoHint, call.close)
       /\ result.score # 3

\* analyze_ema called on 50 bars with fast equal to slow on the last bar, after fast
\* was above slow: score 2 with the close as exit price
C21_Witness ==
    /\ call.analyzer = "ema"
    /\ call.rows = 50
    /\ call.ema_short = call.ema_long
    /\ call.ema_short # NaN
    /\ Above(call.ema_short_prev, call.ema_long_prev)
    /\ result = Returned(2, NoHint, call.close)

----------------------------------------------------------------------------
\* the DataFrame the analyzers were passed for row r of the table being built
PrefixOf(r) == Prefix(InRange(FileOf(r.Symbol)), r.Date)

\* C22: the composite score stored for an instrument and a date is the unweighted mean
\* of the scores the five analyzers gave on the same prefix (their sum divided by 5),
\* and lies in [1, 5].
C22_CompositeIsMeanOfFive ==
    \A i \in 1..Len(stock_scores) :
        LET r == stock_scores[i]
        IN /\ PrefixOf(r) \in DOMAIN library
           /\ library[PrefixOf(r)] # Raises
           /\ LET a == library[PrefixOf(r)]
              IN r.Score = FDiv(FromInt(a.ema + a.rsi + a.adx + a.donchian + a.volume), 5)
           /\ FLeq(FromInt(1), r.Score)
           /\ FLeq(r.Score, FromInt(5))

\* a finished table with a row whose five scores differ (4, 3, 5, 3, 3) and a row whose
\* five scores are all 1
C22_Witness ==
    /\ build.pc = "done"
    /\ \E i, j \in 1..Len(stock_scores) :
          /\ library[PrefixOf(stock_scores[i])].ema = 4
          /\ library[PrefixOf(stock_scores[i])].adx = 5
          /\ stock_scores[i].Score = FDiv(FromInt(18), 5)
          /\ library[PrefixOf(stock_scores[j])].ema = 1
          /\ stock_scores[j].Score = FromInt(1)

----------------------------------------------------------------------------
\* C23: no two Stop-Loss entries of the ledger of one run carry the same date: the bar
\* of a period boundary lies in the window of both periods, yet one bar triggers the
\* stop-loss at most once.
C23_OneStopLossPerDate ==
    \A i, j \in LogIndex :
        (i # j /\ investment_log[i].Action = "Stop-Loss"
               /\ investment_log[j].Action = "Stop-Loss")
        => investment_log[i].Date # investment_log[j].Date

----------------------------------------------------------------------------
\* the step leaves a held position for another instrument at the start of a period
SwitchesAway ==
    /\ pc = "loop"
    /\ current_stock # None
    /\ pc' = "scan"
    /\ current_stock' # current_stock

\* C24: at every switch away from a held position, the portfolio value that sizes the
\* new position is the old share count times the old instrument's Open on the switch
\* date, whatever bar the old instrument's file holds for that date, also when periods
\* without a candidate or with an unavailable candidate lie between the last
\* Reevaluate and the switch.
C24_SwitchSizedAtOldOpen ==
    [][SwitchesAway
       => \A b \in ReadBar(data_folder, current_stock, current_date) \ {NoBar} :
             current_investment = FMul(current_shares, FromInt(OpenOf(b)))]_vars

----------------------------------------------------------------------------
\* a period starts with a selected instrument that is the one held
SelectedIsHeld ==
    /\ pc = "loop"
    /\ current_date <= LastTableDate
    /\ Selected # None
    /\ Selected = current_stock

\* C25: when the selected instrument is the one already held, the position is left as
\* it is: instrument, shares and entry price keep their values, the monitoring of the
\* period does not change them either, and a stop-loss of that period fires on a Low
\* at or below the position's entry price times (1 - stop_loss) and sells at that price.
C25_HeldPositionUnchanged ==
    [][/\ SelectedIsHeld
          => /\ current_stock' = current_stock
             /\ current_shares' = current_shares
             /\ entry_price' = entry_price
       /\ (pc = "scan" /\ Len(investment_log') = Len(investment_log))
          => /\ current_shares' = current_shares
             /\ entry_price' = entry_price
       /\ (pc = "scan" /\ Len(investment_log') > Len(investment_log))
          => /\ AtOrBelowStop(data_folder', stock_data, day)
             /\ LastOf(investment_log').ExitPrice = StopPriceHeld
             /\ LastOf(investment_log').Shares = current_shares]_vars

\* a position entered at 11 in the first period is held over the next period and stopped
\* out on that period's last bar at 11 * (1 - stop_loss): the Stop-Loss entry follows
\* the Reevaluate entry of the period before, with the same instrument and shares
C25_Witness ==
    \E i \in LogIndex :
        /\ i > 1
        /\ investment_log[i].Action = "Stop-Loss"
        /\ investment_log[i - 1].Action = "Reevaluate"
        /\ log_period[i] = log_period[i - 1] + reevaluation_period
        /\ investment_log[i].Symbol = investment_log[i - 1].Symbol
        /\ investment_log[i].Shares = investment_log[i - 1].Shares
        /\ i = 2
        /\ investment_log[i].Date = log_period[i] + reevaluation_period
        /\ investment_log[i].ExitPrice = StopPrice(11)

----------------------------------------------------------------------------
\* C26: every ledger entry is written with the shares of the position being valued and
\* with portfolioValue = shares * price; current_investment is that value right after
\* the append and keeps it until the next append, so the value a run ends with is the
\* one of its last entry.
C26_EntryValueIsSharesTimesPrice ==
    [][/\ Len(investment_log') > Len(investment_log)
          => /\ Len(investment_log') = Len(investment_log) + 1
             /\ LastOf(investment_log').Symbol = current_stock
             /\ LastOf(investment_log').Shares = current_shares
             /\ LastOf(investment_log').InvestmentValue
                   = FMul(LastOf(investment_log').Shares, LastOf(investment_log').ExitPrice)
             /\ current_investment' = LastOf(investment_log').InvestmentValue
       /\ Len(investment_log') = Len(investment_log)
          => /\ investment_log' = investment_log
             /\ current_investment' = current_investment]_vars

\* a run has ended whose ledger holds a Stop-Loss entry and, last, a Reevaluate entry of
\* another value, which is the value the run ends with
C26_Witness ==
    /\ pc = "done"
    /\ Len(investment_log) >= 2
    /\ LastOf(investment_log).Action = "Reevaluate"
    /\ LastOf(investment_log).InvestmentValue = current_investment
    /\ current_investment # InitialValue
    /\ \E i \in LogIndex :
          /\ investment_log[i].Action = "Stop-Loss"
          /\ investment_log[i].InvestmentValue # current_investment
          /\ investment_log[i].InvestmentValue
                = FMul(investment_log[i].Shares, investment_log[i].ExitPrice)

----------------------------------------------------------------------------
\* C27: analyze_rsi on at least 14 bars looks at divergence before the thresholds: a
\* close below the previous close with an RSI above the previous RSI gives
\* (5, close, None); a close above the previous close with an RSI below the previous RSI
\* gives (1, None, close), whatever the level of the RSI; otherwise an RSI below 30 gives
\* (4, close, None), an RSI above 70 gives (2, None, close), and anything else
\* (3, None, None).
C27_RsiDivergenceFirst ==
    (call.analyzer = "rsi" /\ call.rows >= 14 /\ result # Pending)
    => result = IF call.close < call.prev_close /\ Above(call.rsi, call.rsi_prev)
                THEN Returned(5, call.close, NoHint)
                ELSE IF call.close > call.prev_close /\ Above(call.rsi_prev, call.rsi)
                THEN Returned(1, NoHint, call.close)
                ELSE IF call.rsi # NaN /\ call.rsi < 30
                THEN Returned(4, call.close, NoHint)
                ELSE IF call.rsi # NaN /\ call.rsi > 70
                THEN Returned(2, NoHint, call.close)
                ELSE Returned(3, NoHint, NoHint)

\* analyze_rsi called on 14 bars with a lower close and an RSI that rose to 80, above
\* the threshold of 70: score 5 with the close as entry price
C27_Witness ==
    /\ call.analyzer = "rsi"
    /\ call.rows = 14
    /\ call.close < call.prev_close
    /\ call.rsi = 80
    /\ call.rsi_prev = 50
    /\ result = Returned(5, call.close, NoHint)

----------------------------------------------------------------------------
\* C28: analyze_adx on at least 14 bars gives 5 when the ADX is above 25 and +DI is above
\* -DI, 1 when the ADX is above 25 and +DI is not above -DI, and 3 when the ADX is 25 or
\* less; it never gives 2 or 4.
C28_AdxTrend ==
    (call.analyzer = "adx" /\ call.rows >= 14 /\ result # Pending)
    => /\ result = IF Above(call.adx, 25) /\ Above(call.pdi, call.ndi)
                   THEN Returned(5, call.close, NoHint)
                   ELSE IF Above(call.adx, 25)
                   THEN Returned(1, NoHint, call.close)
                   ELSE Returned(3, NoHint, NoHint)
       /\ result.kind = "returned"
       /\ result.score \notin {2, 4}

----------------------------------------------------------------------------
\* C29: analyze_donchian on at least 20 bars compares the latest close with the channel
\* of the previous bar, not with the channel of the latest bar: a close above the
\* previous upper band gives 5, a close below the previous lower band gives 1, anything
\* else, a close equal to a band included, gives 3.
C29_DonchianPreviousBand ==
    (call.analyzer = "donchian" /\ call.rows >= 20 /\ result # Pending)
    => result = IF Above(call.close, call.high_band_prev)
                THEN Returned(5, call.close, NoHint)
                ELSE IF Above(call.low_band_prev, call.close)
                THEN Returned(1, NoHint, call.close)
                ELSE Returned(3, NoHint, NoHint)

\* analyze_donchian called with a close of 11 that sets the latest upper band (11) and
\* lies above the previous one (10): score 5
C29_Witness ==
    /\ call.analyzer = "donchian"
    /\ call.rows >= 20
    /\ call.close = 11
    /\ call.high_band = 11
    /\ call.high_band_prev = 10
    /\ result = Returned(5, call.close, NoHint)

----------------------------------------------------------------------------
\* C30: analyze_volume on at least 20 bars takes the average of the last 20 volumes,
\* the latest included: a latest volume above that average gives 5 with a close above
\* the previous close and 1 with a close below it; anything else gives 3.
C30_VolumeAboveOwnAverage ==
    (call.analyzer = "volume" /\ call.rows >= 20 /\ result # Pending)
    => LET above == 20 * call.volume > call.volume + call.volumes_before
       IN result = IF above /\ call.close > call.prev_close
                   THEN Returned(5, call.close, NoHint)
                   ELSE IF above /\ call.close < call.prev_close
                   THEN Returned(1, NoHint, call.close)
                   ELSE Returned(3, NoHint, NoHint)

\* analyze_volume called with a rising close and a latest volume of 2 that equals the
\* average of the last 20 volumes and exceeds the average of the 20 before it: score 3
C30_Witness ==
    /\ call.analyzer = "volume"
    /\ call.rows >= 20
    /\ call.close > call.prev_close
    /\ call.volume = 2
    /\ call.volumes_before = 38
    /\ call.volume_leaving = 1
    /\ result = Returned(3, NoHint, NoHint)

====
